---- MODULE Spec2Model ----
(***************************************************************************)
(* A model of monkey-kd: the lexer (package lexer), the token table        *)
(* (package token), the Pratt parser (parser/parser.go), the canonical     *)
(* rendering of the AST (ast/ast.go) and the REPL loop (repl/repl.go).     *)
(*                                                                         *)
(* Source text is a sequence of bytes, each byte a one-character string;   *)
(* the byte 0 is NUL.  Go's 0-based positions are kept, so input[i] of the *)
(* source is input[i + 1] here.  A token's literal is the byte sequence    *)
(* of the Go string; Str turns it into a string where the source formats   *)
(* or renders it.                                                          *)
(***************************************************************************)
EXTENDS Integers, Sequences, FiniteSets, TLC

VARIABLES
    src,      \* the source text under analysis and the shape it was drawn from
    lex,      \* LexSpec: the Lexer object
    tok,      \* LexSpec: the token the last NextToken call returned
    parse,    \* the Parser object (with its Lexer), or NoParser
    program,  \* the Program ParseProgram is building / has returned
    pc,       \* the control point of the running operation
    repl      \* ReplSpec: the locals of repl.Start

vars == <<src, lex, tok, parse, program, pc, repl>>

(***************************************************************************)
(* Bytes                                                                   *)
(***************************************************************************)
NUL == "NUL"

Letters ==
    { "a", "b", "c", "d", "e", "f", "g", "h", "i", "j", "k", "l", "m",
      "n", "o", "p", "q", "r", "s", "t", "u", "v", "w", "x", "y", "z",
      "A", "B", "C", "D", "E", "F", "G", "H", "I", "J", "K", "L", "M",
      "N", "O", "P", "Q", "R", "S", "T", "U", "V", "W", "X", "Y", "Z", "_" }

Digits == { "0", "1", "2", "3", "4", "5", "6", "7", "8", "9" }

isLetter(char) == char \in Letters

isDigit(ch) == ch \in Digits

isWhitespace(char) == char \in { " ", "\t", "\n", "\r" }

\* The(S) is the element of the one-element set S.  The({ e : x \in { v } })
\* is e with x standing for the value of v: it is used where v is the result
\* of a call and e reads it more than once, so that the call is made once.
The(S) == CHOOSE x \in S : TRUE

\* string(bytes): the Go string of a byte slice.
RECURSIVE Str(_)
Str(bytes) ==
    The({ IF s = <<>> THEN "" ELSE Head(s) \o Str(Tail(s)) : s \in { bytes } })

(***************************************************************************)
(* package token                                                           *)
(***************************************************************************)
Token(type, literal) == [Type |-> type, Literal |-> literal]

\* The zero value of token.Token.
ZeroToken == Token("", <<>>)

\* The keywords map.
keywords ==
    [fn |-> "FUNCTION", let |-> "LET", true |-> "TRUE", false |-> "FALSE",
     if |-> "IF", else |-> "ELSE", return |-> "RETURN"]

\* A LookupIdentifier that does not look into the keywords map.
LookupIdentifierNoKeywords(identifier) == "IDENTIFIER"

LookupIdentifier(identifier) ==
    The({ IF id \in DOMAIN keywords THEN keywords[id] ELSE "IDENTIFIER"
          : id \in { Str(identifier) } })

(***************************************************************************)
(* package lexer                                                           *)
(***************************************************************************)
readChar(lex0) ==
    The({ [l EXCEPT !.char = IF l.readPosition >= Len(l.input)
                             THEN NUL
                             ELSE l.input[l.readPosition + 1],
                    !.position = l.readPosition,
                    !.readPosition = l.readPosition + 1]
          : l \in { lex0 } })

LexerNew(text) ==
    readChar([input |-> text, position |-> 0, readPosition |-> 0, char |-> NUL])

peekChar(l) ==
    IF l.readPosition >= Len(l.input) THEN NUL ELSE l.input[l.readPosition + 1]

RECURSIVE skipWhitespace(_)
skipWhitespace(lex0) ==
    The({ IF isWhitespace(l.char) THEN skipWhitespace(readChar(l)) ELSE l
          : l \in { lex0 } })

\* The loop of readIdentifier: the lexer once it stands after the run of letters.
RECURSIVE readIdentifierLoop(_)
readIdentifierLoop(lex0) ==
    The({ IF isLetter(l.char) THEN readIdentifierLoop(readChar(l)) ELSE l
          : l \in { lex0 } })

\* readIdentifier: [lex |-> the lexer after the call, text |-> the result].
readIdentifier(l) ==
    The({ [lex |-> end,
           text |-> SubSeq(l.input, l.position + 1, end.position)]
          : end \in { readIdentifierLoop(l) } })

RECURSIVE readNumberLoop(_)
readNumberLoop(lex0) ==
    The({ IF isDigit(l.char) THEN readNumberLoop(readChar(l)) ELSE l
          : l \in { lex0 } })

\* readNumber: [lex |-> the lexer after the call, text |-> the result].
readNumber(l) ==
    The({ [lex |-> end,
           text |-> SubSeq(l.input, l.position + 1, end.position)]
          : end \in { readNumberLoop(l) } })

newToken(tokenType, char) == Token(tokenType, <<char>>)

\* The token kind of a byte that is a one-byte operator or delimiter by itself.
SingleCharTypes == { "+", "-", "/", "*", "<", ">", ";", ",", "(", ")", "{", "}" }

\* A two-byte token that peeks at its second byte and does not read it.
twoCharTokenPeeked(l, type) ==
    [lex |-> readChar(l), tok |-> Token(type, << l.char, peekChar(l) >>)]

\* The two-byte token of kind type at l: the current byte and the next one.
twoCharToken(l, type) ==
    The({ [lex |-> readChar(l2), tok |-> Token(type, <<l.char, l2.char>>)]
          : l2 \in { readChar(l) } })

\* The one-byte token of kind type at l, and the readChar() that ends NextToken.
oneCharToken(l, type) == [lex |-> readChar(l), tok |-> newToken(type, l.char)]

\* An end-of-input arm that builds its token from the current byte, as the
\* arms of the one-byte tokens do: the literal would then be the NUL byte.
eofTokenFromChar(l) == oneCharToken(l, "EOF")

\* The arm of the NUL byte (case 0), and the readChar() that ends NextToken.
eofToken(l) == [lex |-> readChar(l), tok |-> Token("EOF", <<>>)]

\* NextToken: [lex |-> the lexer after the call, tok |-> the token returned].
NextToken(lex0) ==
    The({ CASE l.char = "=" ->
                  IF peekChar(l) = "=" THEN twoCharToken(l, "==")
                  ELSE oneCharToken(l, "=")
            [] l.char = "!" ->
                  IF peekChar(l) = "=" THEN twoCharToken(l, "!=")
                  ELSE oneCharToken(l, "!")
            [] l.char \in SingleCharTypes -> oneCharToken(l, l.char)
            [] l.char = NUL -> eofToken(l)
            [] OTHER ->
                  IF isLetter(l.char)
                  THEN The({ [lex |-> r.lex,
                              tok |-> Token(LookupIdentifier(r.text), r.text)]
                             : r \in { readIdentifier(l) } })
                  ELSE IF isDigit(l.char)
                  THEN The({ [lex |-> r.lex, tok |-> Token("INT", r.text)]
                             : r \in { readNumber(l) } })
                  ELSE oneCharToken(l, "ILLEGAL")
          : l \in { skipWhitespace(lex0) } })

(***************************************************************************)
(* package ast: the nodes.  NIL is the nil interface value (or nil         *)
(* pointer to a block); NilLetStatement is the nil *ast.LetStatement,      *)
(* which is not the nil interface once it is held in an ast.Statement.     *)
(* A slice is [nil, elems]: Go tells a nil slice from an empty one.        *)
(***************************************************************************)
NIL == [kind |-> "nil"]

NilLetStatement == [kind |-> "nil *ast.LetStatement"]

Slice(elems) == [nil |-> FALSE, elems |-> elems]

NilSlice == [nil |-> TRUE, elems |-> <<>>]

Identifier(token, value) ==
    [kind |-> "Identifier", Token |-> token, Value |-> value]

IntegerLiteral(token, value) ==
    [kind |-> "IntegerLiteral", Token |-> token, Value |-> value]

Boolean(token, value) ==
    [kind |-> "Boolean", Token |-> token, Value |-> value]

PrefixExpression(token, operator, right) ==
    [kind |-> "PrefixExpression", Token |-> token, Operator |-> operator,
     Right |-> right]

InfixExpression(token, left, operator, right) ==
    [kind |-> "InfixExpression", Token |-> token, Left |-> left,
     Operator |-> operator, Right |-> right]

IfExpression(token, condition, consequence, alternative) ==
    [kind |-> "IfExpression", Token |-> token, Condition |-> condition,
     Consequence |-> consequence, Alternative |-> alternative]

BlockStatement(token, statements) ==
    [kind |-> "BlockStatement", Token |-> token, Statements |-> statements]

FunctionLiteral(token, parameters, body) ==
    [kind |-> "FunctionLiteral", Token |-> token, Parameters |-> parameters,
     Body |-> body]

CallExpression(token, function, arguments) ==
    [kind |-> "CallExpression", Token |-> token, Function |-> function,
     Arguments |-> arguments]

LetStatement(token, name, value) ==
    [kind |-> "LetStatement", Token |-> token, Name |-> name, Value |-> value]

ReturnStatement(token, returnValue) ==
    [kind |-> "ReturnStatement", Token |-> token, ReturnValue |-> returnValue]

ExpressionStatement(token, expression) ==
    [kind |-> "ExpressionStatement", Token |-> token, Expression |-> expression]

(***************************************************************************)
(* parser/parser.go                                                        *)
(***************************************************************************)
LOWEST == 1
EQUALS == 2
LESSGREATER == 3
SUM == 4
PRODUCT == 5
PREFIX == 6
CALL == 7

precedences ==
    [t \in { "==", "!=", "<", ">", "+", "-", "/", "*", "(" } |->
        CASE t \in { "==", "!=" } -> EQUALS
          [] t \in { "<", ">" }   -> LESSGREATER
          [] t \in { "+", "-" }   -> SUM
          [] t \in { "/", "*" }   -> PRODUCT
          [] t = "("              -> CALL]

\* The token kinds New registers a prefix parse function for.
prefixParseFns ==
    { "IDENTIFIER", "INT", "!", "-", "TRUE", "FALSE", "(", "IF", "FUNCTION" }

\* The token kinds New registers an infix parse function for.
infixParseFns == { "+", "-", "/", "*", "==", "!=", "<", ">", "(" }

\* The parser stands at end-of-input for good: both tokens of the window are
\* EOF and the lexer is past the last byte, so nextToken leaves the window and
\* the lexer's byte as they are (only readPosition grows).
AtEndForGood(p) ==
    /\ p.curToken.Type = "EOF"
    /\ p.peekToken.Type = "EOF"
    /\ p.lex.char = NUL
    /\ p.lex.position >= Len(p.lex.input)

\* p.hang marks a parser whose running loop can never end; nothing after that
\* loop is ever executed, so the parser is left as it is.
nextToken(parser) ==
    The({ IF p.hang THEN p
          ELSE The({ [p EXCEPT !.curToken = p.peekToken, !.peekToken = r.tok,
                               !.lex = r.lex]
                     : r \in { NextToken(p.lex) } })
          : p \in { parser } })

ParserNew(l) ==
    nextToken(nextToken([lex |-> l, curToken |-> ZeroToken,
                         peekToken |-> ZeroToken, errors |-> <<>>,
                         hang |-> FALSE]))

appendError(p, msg) ==
    IF p.hang THEN p ELSE [p EXCEPT !.errors = Append(p.errors, msg)]

curTokenIs(p, t) == p.curToken.Type = t

peekTokenIs(p, t) == p.peekToken.Type = t

peekErrorMsg(t, got) ==
    "expected next token to be " \o t \o ", got " \o got \o " instead"

peekError(p, t) == appendError(p, peekErrorMsg(t, p.peekToken.Type))

\* expectPeek: [p |-> the parser after the call, ok |-> the result].
expectPeek(parser, t) ==
    The({ IF peekTokenIs(p, t)
          THEN [p |-> nextToken(p), ok |-> TRUE]
          ELSE [p |-> peekError(p, t), ok |-> FALSE]
          : p \in { parser } })

noPrefixParseFnErrorMsg(tt) == "no prefix parse function for " \o tt \o " found"

noPrefixParseFnError(p, tt) == appendError(p, noPrefixParseFnErrorMsg(tt))

peekPrecedence(p) ==
    IF p.peekToken.Type \in DOMAIN precedences
    THEN precedences[p.peekToken.Type]
    ELSE LOWEST

curPrecedence(p) ==
    IF p.curToken.Type \in DOMAIN precedences
    THEN precedences[p.curToken.Type]
    ELSE LOWEST

\* The loop `for !curTokenIs(SEMICOLON) { nextToken() }` of parseLetStatement
\* and parseReturnStatement.  At AtEndForGood every further iteration leaves
\* the window as it is, so the loop never ends: the parser hangs.
RECURSIVE skipToSemicolon(_)
skipToSemicolon(parser) ==
    The({ IF curTokenIs(p, ";") THEN p
          ELSE IF AtEndForGood(p) THEN [p EXCEPT !.hang = TRUE]
          ELSE skipToSemicolon(nextToken(p))
          : p \in { parser } })

\* What a parse function returns, with the parser as it leaves it.
Res(p, node) == [p |-> p, node |-> node]

parseIdentifier(p) == Res(p, Identifier(p.curToken, p.curToken.Literal))

parseBoolean(p) == Res(p, Boolean(p.curToken, curTokenIs(p, "TRUE")))

(***************************************************************************)
(* strconv.ParseInt(literal, 0, 64) on a run of digits: a leading 0 makes  *)
(* the rest octal, and a value of 2^63 or more is out of range.            *)
(***************************************************************************)
DigitValue(ch) ==
    CASE ch = "0" -> 0 [] ch = "1" -> 1 [] ch = "2" -> 2 [] ch = "3" -> 3
      [] ch = "4" -> 4 [] ch = "5" -> 5 [] ch = "6" -> 6 [] ch = "7" -> 7
      [] ch = "8" -> 8 [] ch = "9" -> 9

RECURSIVE stripZeros(_)
stripZeros(digits) ==
    The({ IF ds # <<>> /\ Head(ds) = "0" THEN stripZeros(Tail(ds)) ELSE ds
          : ds \in { digits } })

\* digits >= bound, for two digit runs of equal length.
RECURSIVE digitsGeq(_, _)
digitsGeq(digits, bound) ==
    The({ IF ds = <<>> THEN TRUE
          ELSE IF DigitValue(Head(ds)) # DigitValue(Head(bd))
          THEN DigitValue(Head(ds)) > DigitValue(Head(bd))
          ELSE digitsGeq(Tail(ds), Tail(bd))
          : ds \in { digits }, bd \in { bound } })

\* The decimal digits of 2^63.
TwoTo63 ==
    << "9", "2", "2", "3", "3", "7", "2", "0", "3", "6", "8", "5", "4", "7",
       "7", "5", "8", "0", "8" >>

RECURSIVE horner(_, _, _)
horner(digits, base, sum) ==
    The({ IF ds = <<>> THEN acc
          ELSE horner(Tail(ds), base, acc * base + DigitValue(Head(ds)))
          : ds \in { digits }, acc \in { sum } })

\* [err |-> whether ParseInt returns an error, value |-> the value if not].
ParseInt(literal) ==
    LET octal == Len(literal) >= 1 /\ Head(literal) = "0"
        ds == stripZeros(literal)
        bad == octal /\ \E i \in 1..Len(ds) : ds[i] \in { "8", "9" }
        range == IF octal THEN Len(ds) >= 22
                 ELSE \/ Len(ds) > Len(TwoTo63)
                      \/ Len(ds) = Len(TwoTo63) /\ digitsGeq(ds, TwoTo63)
    IN  IF literal = <<>> \/ bad \/ range
        THEN [err |-> TRUE, value |-> 0]
        ELSE [err |-> FALSE, value |-> horner(ds, IF octal THEN 8 ELSE 10, 0)]

\* The %q rendering of a literal made of digits.
Quoted(literal) == "\"" \o Str(literal) \o "\""

parseIntegerLiteralErrorMsg(literal) ==
    "could not parse " \o Quoted(literal) \o " as integer"

parseIntegerLiteral(p) ==
    The({ IF r.err
          THEN Res(appendError(p, parseIntegerLiteralErrorMsg(p.curToken.Literal)),
                   NIL)
          ELSE Res(p, IntegerLiteral(p.curToken, r.value))
          : r \in { ParseInt(p.curToken.Literal) } })

\* The loop of parseFunctionParameters: [p, identifiers].
RECURSIVE parseFunctionParametersLoop(_, _)
parseFunctionParametersLoop(parser, idents) ==
    The({ IF peekTokenIs(p, ",")
          THEN The({ parseFunctionParametersLoop(
                         p2, Append(identifiers,
                                    Identifier(p2.curToken, p2.curToken.Literal)))
                     : p2 \in { nextToken(nextToken(p)) } })
          ELSE [p |-> p, identifiers |-> identifiers]
          : p \in { parser }, identifiers \in { idents } })

parseFunctionParameters(p) ==
    IF peekTokenIs(p, ")")
    THEN Res(nextToken(p), Slice(<<>>))
    ELSE The({ The({ The({ IF ~e.ok THEN Res(e.p, NilSlice)
                           ELSE Res(e.p, Slice(l.identifiers))
                           : e \in { expectPeek(l.p, ")") } })
                     : l \in { parseFunctionParametersLoop(
                                   p1, << Identifier(p1.curToken,
                                                     p1.curToken.Literal) >>) } })
               : p1 \in { nextToken(p) } })

\* The parse functions call one another; call(fn, p, arg) is the call of the
\* parse function named fn on parser p with its other argument (NIL if none).
RECURSIVE call(_, _, _)
RECURSIVE parseExpressionLoop(_, _, _)
RECURSIVE parseBlockStatementLoop(_, _)
RECURSIVE parseCallArgumentsLoop(_, _)

\* prefix(): the prefix parse function registered for the current token.
prefixFn(p) ==
    CASE p.curToken.Type = "IDENTIFIER"         -> parseIdentifier(p)
      [] p.curToken.Type = "INT"                -> parseIntegerLiteral(p)
      [] p.curToken.Type \in { "!", "-" }       -> call("parsePrefixExpression", p, NIL)
      [] p.curToken.Type \in { "TRUE", "FALSE" } -> parseBoolean(p)
      [] p.curToken.Type = "("                  -> call("parseGroupedExpression", p, NIL)
      [] p.curToken.Type = "IF"                 -> call("parseIfExpression", p, NIL)
      [] p.curToken.Type = "FUNCTION"           -> call("parseFunctionLiteral", p, NIL)

\* infix(left): the infix parse function registered for the current token.
infixFn(p, left) ==
    IF p.curToken.Type = "("
    THEN call("parseCallExpression", p, left)
    ELSE call("parseInfixExpression", p, left)

\* The loop of parseExpression.
parseExpressionLoop(parser, leftExpr, precedence) ==
    The({ IF ~peekTokenIs(p, ";") /\ precedence < peekPrecedence(p)
          THEN IF p.peekToken.Type \notin infixParseFns
               THEN Res(p, leftExpression)
               ELSE The({ parseExpressionLoop(r.p, r.node, precedence)
                          : r \in { call("infixFn", nextToken(p),
                                         leftExpression) } })
          ELSE Res(p, leftExpression)
          : p \in { parser }, leftExpression \in { leftExpr } })

parseExpression(p, precedence) ==
    IF p.curToken.Type \notin prefixParseFns
    THEN Res(noPrefixParseFnError(p, p.curToken.Type), NIL)
    ELSE The({ parseExpressionLoop(left.p, left.node, precedence)
               : left \in { call("prefixFn", p, NIL) } })

\* A parsePrefixExpression whose operand is parsed at LOWEST: the operator
\* would then take the whole chain that follows as its operand.
parsePrefixExpressionLoose(p) ==
    The({ Res(r.p, PrefixExpression(p.curToken, Str(p.curToken.Literal), r.node))
          : r \in { call("parseExpression", nextToken(p), LOWEST) } })

parsePrefixExpression(p) ==
    The({ Res(r.p, PrefixExpression(p.curToken, Str(p.curToken.Literal), r.node))
          : r \in { call("parseExpression", nextToken(p), PREFIX) } })

\* A parseInfixExpression whose right operand is parsed one precedence lower:
\* operators of equal precedence would then group to the right.
parseInfixExpressionRight(p, left) ==
    The({ Res(r.p, InfixExpression(p.curToken, left, Str(p.curToken.Literal),
                                   r.node))
          : r \in { call("parseExpression", nextToken(p), curPrecedence(p) - 1) } })

parseInfixExpression(p, left) ==
    The({ Res(r.p, InfixExpression(p.curToken, left, Str(p.curToken.Literal),
                                   r.node))
          : r \in { call("parseExpression", nextToken(p), curPrecedence(p)) } })

parseGroupedExpression(p) ==
    The({ The({ IF ~e.ok THEN Res(e.p, NIL) ELSE Res(e.p, r.node)
                : e \in { expectPeek(r.p, ")") } })
          : r \in { call("parseExpression", nextToken(p), LOWEST) } })

\* parseIfExpression once the condition is parsed: from expectPeek(RPAREN) on.
parseIfExpressionBlocks(p, cond) ==
    The({ IF ~e2.ok THEN Res(e2.p, NIL)
          ELSE
          The({ IF ~e3.ok THEN Res(e3.p, NIL)
                ELSE
                The({ IF peekTokenIs(cons.p, "ELSE")
                      THEN The({ IF ~e4.ok THEN Res(e4.p, NIL)
                                 ELSE The({ Res(alt.p,
                                                IfExpression(p.curToken, cond.node,
                                                             cons.node, alt.node))
                                            : alt \in { call("parseBlockStatement",
                                                             e4.p, NIL) } })
                                 : e4 \in { expectPeek(nextToken(cons.p), "{") } })
                      ELSE Res(cons.p,
                               IfExpression(p.curToken, cond.node, cons.node, NIL))
                      : cons \in { call("parseBlockStatement", e3.p, NIL) } })
                : e3 \in { expectPeek(e2.p, "{") } })
          : e2 \in { expectPeek(cond.p, ")") } })

parseIfExpression(p) ==
    The({ IF ~e1.ok THEN Res(e1.p, NIL)
          ELSE The({ parseIfExpressionBlocks(p, cond)
                     : cond \in { call("parseExpression", nextToken(e1.p),
                                       LOWEST) } })
          : e1 \in { expectPeek(p, "(") } })

parseFunctionLiteral(p) ==
    The({ IF ~e1.ok THEN Res(e1.p, NIL)
          ELSE
          The({ The({ IF ~e2.ok THEN Res(e2.p, NIL)
                      ELSE The({ Res(body.p,
                                     FunctionLiteral(p.curToken, params.node,
                                                     body.node))
                                 : body \in { call("parseBlockStatement", e2.p,
                                                   NIL) } })
                      : e2 \in { expectPeek(params.p, "{") } })
                : params \in { parseFunctionParameters(e1.p) } })
          : e1 \in { expectPeek(p, "(") } })

\* The loop of parseBlockStatement: [p, statements].
parseBlockStatementLoop(parser, stmts) ==
    The({ IF ~curTokenIs(p, "}") /\ ~curTokenIs(p, "EOF")
          THEN The({ parseBlockStatementLoop(
                         nextToken(r.p),
                         IF r.node # NIL THEN Append(statements, r.node)
                         ELSE statements)
                     : r \in { call("parseStatement", p, NIL) } })
          ELSE [p |-> p, statements |-> statements]
          : p \in { parser }, statements \in { stmts } })

parseBlockStatement(p) ==
    The({ Res(l.p, BlockStatement(p.curToken, l.statements))
          : l \in { parseBlockStatementLoop(nextToken(p), <<>>) } })

parseCallExpression(p, function) ==
    The({ Res(args.p, CallExpression(p.curToken, function, args.node))
          : args \in { call("parseCallArguments", p, NIL) } })

\* The loop of parseCallArguments: [p, args].
parseCallArgumentsLoop(parser, args0) ==
    The({ IF peekTokenIs(p, ",")
          THEN The({ parseCallArgumentsLoop(r.p, Append(args, r.node))
                     : r \in { call("parseExpression", nextToken(nextToken(p)),
                                    LOWEST) } })
          ELSE [p |-> p, args |-> args]
          : p \in { parser }, args \in { args0 } })

parseCallArguments(p) ==
    IF peekTokenIs(p, ")")
    THEN Res(nextToken(p), Slice(<<>>))
    ELSE The({ The({ The({ IF ~e.ok THEN Res(e.p, NilSlice)
                           ELSE Res(e.p, Slice(l.args))
                           : e \in { expectPeek(l.p, ")") } })
                     : l \in { parseCallArgumentsLoop(first.p,
                                                      << first.node >>) } })
               : first \in { call("parseExpression", nextToken(p), LOWEST) } })

\* The *ast.LetStatement, *ast.ReturnStatement or *ast.ExpressionStatement a
\* statement parser returns becomes an ast.Statement here: a nil
\* *ast.LetStatement is an ast.Statement that is not nil.
parseStatement(p) ==
    CASE p.curToken.Type = "LET"    -> call("parseLetStatement", p, NIL)
      [] p.curToken.Type = "RETURN" -> call("parseReturnStatement", p, NIL)
      [] OTHER                      -> call("parseExpressionStatement", p, NIL)

\* A parseLetStatement that builds Name from the token it started on (let)
\* and not from the identifier expectPeek moved to.
parseLetStatementStaleName(p) ==
    The({ IF ~e1.ok THEN Res(e1.p, NilLetStatement)
          ELSE
          The({ IF ~e2.ok THEN Res(e2.p, NilLetStatement)
                ELSE The({ Res(skipToSemicolon(value.p),
                               LetStatement(p.curToken,
                                            Identifier(p.curToken,
                                                       p.curToken.Literal),
                                            value.node))
                           : value \in { call("parseExpression", nextToken(e2.p),
                                              LOWEST) } })
                : e2 \in { expectPeek(e1.p, "=") } })
          : e1 \in { expectPeek(p, "IDENTIFIER") } })

parseLetStatement(p) ==
    The({ IF ~e1.ok THEN Res(e1.p, NilLetStatement)
          ELSE
          The({ IF ~e2.ok THEN Res(e2.p, NilLetStatement)
                ELSE The({ Res(skipToSemicolon(value.p),
                               LetStatement(p.curToken,
                                            Identifier(e1.p.curToken,
                                                       e1.p.curToken.Literal),
                                            value.node))
                           : value \in { call("parseExpression", nextToken(e2.p),
                                              LOWEST) } })
                : e2 \in { expectPeek(e1.p, "=") } })
          : e1 \in { expectPeek(p, "IDENTIFIER") } })

parseReturnStatement(p) ==
    The({ Res(skipToSemicolon(value.p), ReturnStatement(p.curToken, value.node))
          : value \in { call("parseExpression", nextToken(p), LOWEST) } })

parseExpressionStatement(p) ==
    The({ Res(IF peekTokenIs(r.p, ";") THEN nextToken(r.p) ELSE r.p,
              ExpressionStatement(p.curToken, r.node))
          : r \in { call("parseExpression", p, LOWEST) } })

call(fn, parser, arg0) ==
    The({ CASE fn = "parseExpression"          -> parseExpression(p, arg)
            [] fn = "prefixFn"                 -> prefixFn(p)
            [] fn = "infixFn"                  -> infixFn(p, arg)
            [] fn = "parsePrefixExpression"    -> parsePrefixExpression(p)
            [] fn = "parseInfixExpression"     -> parseInfixExpression(p, arg)
            [] fn = "parseGroupedExpression"   -> parseGroupedExpression(p)
            [] fn = "parseIfExpression"        -> parseIfExpression(p)
            [] fn = "parseFunctionLiteral"     -> parseFunctionLiteral(p)
            [] fn = "parseBlockStatement"      -> parseBlockStatement(p)
            [] fn = "parseCallExpression"      -> parseCallExpression(p, arg)
            [] fn = "parseCallArguments"       -> parseCallArguments(p)
            [] fn = "parseStatement"           -> parseStatement(p)
            [] fn = "parseLetStatement"        -> parseLetStatement(p)
            [] fn = "parseReturnStatement"     -> parseReturnStatement(p)
            [] fn = "parseExpressionStatement" -> parseExpressionStatement(p)
          : p \in { parser }, arg \in { arg0 } })

\* One iteration of the loop of ParseProgram, taken when the current token is
\* not EOF: [p, statements], p.hang when parseStatement never returns.
ParseProgramBody(p, statements) ==
    The({ IF r.p.hang THEN [p |-> r.p, statements |-> statements]
          ELSE [p |-> nextToken(r.p),
                statements |-> IF r.node # NIL THEN Append(statements, r.node)
                               ELSE statements]
          : r \in { call("parseStatement", p, NIL) } })

\* ParseProgram: [p, statements]; p.hang when it never returns.
RECURSIVE ParseProgramLoop(_, _)
ParseProgramLoop(parser, stmts) ==
    The({ IF p.curToken.Type # "EOF" /\ ~p.hang
          THEN The({ ParseProgramLoop(b.p, b.statements)
                     : b \in { ParseProgramBody(p, statements) } })
          ELSE [p |-> p, statements |-> statements]
          : p \in { parser }, statements \in { stmts } })

ParseProgram(p) == ParseProgramLoop(p, <<>>)

Errors(p) == p.errors

(***************************************************************************)
(* package ast: String().  A String method that calls a method of a nil    *)
(* part, or reads a field through a nil pointer, panics.                   *)
(***************************************************************************)
RECURSIVE Panics(_)
Panics(n) ==
    CASE n.kind = "nil" -> TRUE
      [] n.kind = "nil *ast.LetStatement" -> TRUE
      [] n.kind \in { "Identifier", "IntegerLiteral", "Boolean" } -> FALSE
      [] n.kind = "PrefixExpression" -> Panics(n.Right)
      [] n.kind = "InfixExpression" -> Panics(n.Left) \/ Panics(n.Right)
      [] n.kind = "IfExpression" ->
            \/ Panics(n.Condition)
            \/ Panics(n.Consequence)
            \/ (n.Alternative # NIL /\ Panics(n.Alternative))
      [] n.kind = "BlockStatement" ->
            \E i \in 1..Len(n.Statements) : Panics(n.Statements[i])
      [] n.kind = "FunctionLiteral" -> Panics(n.Body)
      [] n.kind = "CallExpression" ->
            \/ Panics(n.Function)
            \/ \E i \in 1..Len(n.Arguments.elems) : Panics(n.Arguments.elems[i])
      [] n.kind = "LetStatement" -> n.Value # NIL /\ Panics(n.Value)
      [] n.kind = "ReturnStatement" ->
            n.ReturnValue # NIL /\ Panics(n.ReturnValue)
      [] n.kind = "ExpressionStatement" ->
            n.Expression # NIL /\ Panics(n.Expression)

\* strings.Join(strs, sep)
RECURSIVE Join(_, _)
Join(strs, sep) ==
    IF strs = <<>> THEN ""
    ELSE IF Len(strs) = 1 THEN strs[1]
    ELSE strs[1] \o sep \o Join(Tail(strs), sep)

\* The String method of a node none of whose String calls panics.
RECURSIVE String(_)
RECURSIVE StringAll(_)
StringAll(nodes) ==
    IF nodes = <<>> THEN "" ELSE String(Head(nodes)) \o StringAll(Tail(nodes))

String(n) ==
    CASE n.kind = "Identifier" -> Str(n.Value)
      [] n.kind = "IntegerLiteral" -> Str(n.Token.Literal)
      [] n.kind = "Boolean" -> Str(n.Token.Literal)
      [] n.kind = "PrefixExpression" ->
            "(" \o n.Operator \o String(n.Right) \o ")"
      [] n.kind = "InfixExpression" ->
            "(" \o String(n.Left) \o " " \o n.Operator \o " "
                \o String(n.Right) \o ")"
      [] n.kind = "IfExpression" ->
            "if" \o String(n.Condition) \o " " \o String(n.Consequence)
                 \o (IF n.Alternative # NIL
                     THEN "else " \o String(n.Alternative) ELSE "")
      [] n.kind = "BlockStatement" -> StringAll(n.Statements)
      [] n.kind = "FunctionLiteral" ->
            Str(n.Token.Literal) \o "("
                \o Join([i \in 1..Len(n.Parameters.elems) |->
                            String(n.Parameters.elems[i])], ", ")
                \o ") " \o String(n.Body)
      [] n.kind = "CallExpression" ->
            String(n.Function) \o "("
                \o Join([i \in 1..Len(n.Arguments.elems) |->
                            String(n.Arguments.elems[i])], ", ")
                \o ")"
      [] n.kind = "LetStatement" ->
            Str(n.Token.Literal) \o " " \o String(n.Name) \o " = "
                \o (IF n.Value # NIL THEN String(n.Value) ELSE "") \o ";"
      [] n.kind = "ReturnStatement" ->
            Str(n.Token.Literal) \o " "
                \o (IF n.ReturnValue # NIL THEN String(n.ReturnValue) ELSE "")
                \o ";"
      [] n.kind = "ExpressionStatement" ->
            IF n.Expression # NIL THEN String(n.Expression) ELSE ""

\* Program.String() of a program whose statements render without a panic.
ProgramString(statements) == StringAll(statements)

ProgramPanics(statements) ==
    \E i \in 1..Len(statements) : Panics(statements[i])

(***************************************************************************)
(* The source texts the parser is run on.  A text is spelled from words    *)
(* separated by one space; src keeps the words it was spelled from.        *)
(***************************************************************************)
MaxWords == 4
MaxOps == 3
MaxPrefixOps == 1
MaxParams == 3
MaxRest == 3

Spell(w) ==
    CASE w = "let"    -> << "l", "e", "t" >>
      [] w = "return" -> << "r", "e", "t", "u", "r", "n" >>
      [] w = "if"     -> << "i", "f" >>
      [] w = "else"   -> << "e", "l", "s", "e" >>
      [] w = "fn"     -> << "f", "n" >>
      [] w = "true"   -> << "t", "r", "u", "e" >>
      [] w = "=="     -> << "=", "=" >>
      [] w = "!="     -> << "!", "=" >>
      [] w = "08"     -> << "0", "8" >>
      [] w = "five"   -> << "f", "i", "v", "e" >>
      [] OTHER        -> << w >>

RECURSIVE Text(_)
Text(words) ==
    The({ IF ws = <<>> THEN <<>>
          ELSE IF Len(ws) = 1 THEN Spell(ws[1])
          ELSE Spell(ws[1]) \o << " " >> \o Text(Tail(ws))
          : ws \in { words } })

SeqsUpTo(S, n) == UNION { [1..k -> S] : k \in 0..n }

Source(family, words, units, ops) ==
    [text |-> Text(words), family |-> family, words |-> words,
     units |-> units, ops |-> ops]

\* Every sequence of at most MaxWords words of a small vocabulary.
WordVocab == { "let", "return", "x", "5", "=", ";", "+", "-", "(", ")" }

WordSources ==
    { Source("words", ws, <<>>, <<>>) : ws \in SeqsUpTo(WordVocab, MaxWords) }

\* Chains of operands joined by binary operators.  An operand (a unit) is an
\* atom, with prefix operators before it and, when arg is not "", a call
\* a(arg) after it.
BinaryOps == { "==", "!=", "<", ">", "+", "-", "*", "/" }

Unit(pre, atom, arg) == [pre |-> pre, atom |-> atom, arg |-> arg]

UnitWords(u) ==
    u.pre \o << u.atom >> \o (IF u.arg = "" THEN <<>> ELSE << "(", u.arg, ")" >>)

RECURSIVE ChainWords(_, _)
ChainWords(units, ops) ==
    The({ IF os = <<>> THEN UnitWords(us[1])
          ELSE UnitWords(us[1]) \o << os[1] >> \o ChainWords(Tail(us), Tail(os))
          : us \in { units }, os \in { ops } })

LetterAtoms == << "a", "b", "c", "d", "e", "f", "g", "h" >>
DigitAtoms == << "1", "2", "3", "4", "5", "6", "7", "8" >>

PrefixForms == { <<>>, << "-" >>, << "!" >>, << "!", "-" >> }

\* The chains of plain atoms: a op b op c ..., 1 op 2 op 3 ...
ChainSources ==
    UNION { { Source("chain",
                     ChainWords([i \in 1..(Len(os) + 1) |->
                                    Unit(<<>>, atoms[i], "")], os) \o tail,
                     [i \in 1..(Len(os) + 1) |-> Unit(<<>>, atoms[i], "")],
                     os) :
                atoms \in { LetterAtoms, DigitAtoms },
                tail \in { <<>>, << ";" >> } } :
            os \in SeqsUpTo(BinaryOps, MaxOps) }

\* The chains whose operands carry prefix operators and calls.
PrefixUnits(atom) ==
    { Unit(pre, atom, arg) : pre \in PrefixForms, arg \in { "", "x" } }

PrefixSources ==
    UNION { { Source("prefix", ChainWords(us, os), us, os) :
                us \in { u \in [1..(Len(os) + 1) -> PrefixUnits("a")
                                                   \cup PrefixUnits("b")] :
                            \A i \in DOMAIN u : u[i].atom = LetterAtoms[i] } } :
            os \in SeqsUpTo(BinaryOps, MaxPrefixOps) }

\* let <ident> = <chain> ; for the chains of at most MaxPrefixOps operators.
LetSources ==
    { Source("let", << "let", id, "=" >> \o ChainWords(c.units, c.ops) \o << ";" >>,
             c.units, c.ops) :
        id \in { "x", "five" },
        c \in { d \in PrefixSources \cup ChainSources :
                    d.words = ChainWords(d.units, d.ops)
                    /\ Len(d.ops) <= MaxPrefixOps } }

\* Function literals: fn ( <parameter words> <rest>.
FnSources ==
    { Source("fn", << "fn", "(" >> \o params \o rest, <<>>, <<>>) :
        params \in SeqsUpTo({ "x", "1", "," }, MaxParams),
        rest \in SeqsUpTo({ ")", "{", "}", "x" }, MaxRest) }

\* Whole programs, and what is left of them when the text ends early or one
\* word is missing.
Templates ==
    { << "if", "(", "x", ")", "{", "x", "}", "else", "{", "y", "}", ";" >>,
      << "if", "(", "x", "<", "y", ")", "{", "return", "x", ";", "}" >>,
      << "fn", "(", "x", ",", "y", ")", "{", "x", "+", "y", ";", "}",
         "(", "1", ",", "2", ")", ";" >>,
      << "let", "f", "=", "fn", "(", "x", ")", "{", "let", "y", "=", "x", ";",
         "y", "}", ";" >>,
      << "x", "(", "1", ",", "(", "2", "+", "3", ")", ")", ";" >>,
      << "let", "x", "=", "08", "+", "true", ";", "return", ";" >>,
      << "fn", "(", "1", ",", "2", ")", "{", "}" >>,
      << "return", "5" >>,
      << "let", "five", "=", "5", ";" >> }

DropWord(ws, d) ==
    IF d = 0 THEN ws ELSE SubSeq(ws, 1, d - 1) \o SubSeq(ws, d + 1, Len(ws))

TemplateSources ==
    UNION { { Source("template", DropWord(SubSeq(t, 1, k), IF d > k THEN 0 ELSE d),
                             <<>>, <<>>) :
                k \in 0..Len(t), d \in 0..Len(t) } :
            t \in Templates }

ParserSources ==
    WordSources \cup ChainSources \cup PrefixSources \cup LetSources
        \cup FnSources \cup TemplateSources

(***************************************************************************)
(* Spec: lexer.New, parser.New and ParseProgram on one source text.        *)
(***************************************************************************)
NoParser == [none |-> TRUE]
NoLexer == [none |-> TRUE]
NoRepl == [none |-> TRUE]

Init ==
    /\ src \in ParserSources
    /\ lex = NoLexer
    /\ tok = ZeroToken
    /\ parse = NoParser
    /\ program = <<>>
    /\ pc = "new"
    /\ repl = NoRepl

\* parser.New(lexer.New(text)), and the first two statements of ParseProgram.
New ==
    /\ pc = "new"
    /\ parse' = ParserNew(LexerNew(src.text))
    /\ program' = <<>>
    /\ pc' = "loop"
    /\ UNCHANGED <<src, lex, tok, repl>>

\* One iteration of the loop of ParseProgram.
ParseProgramStep ==
    /\ pc = "loop"
    /\ parse.curToken.Type # "EOF"
    /\ LET b == ParseProgramBody(parse, program)
       IN  /\ parse' = b.p
           /\ program' = b.statements
           /\ pc' = IF b.p.hang THEN "hang" ELSE "loop"
    /\ UNCHANGED <<src, lex, tok, repl>>

\* The loop of ParseProgram ends and the program is returned.
ParseProgramReturn ==
    /\ pc = "loop"
    /\ parse.curToken.Type = "EOF"
    /\ pc' = "done"
    /\ UNCHANGED <<src, lex, tok, parse, program, repl>>

Next == New \/ ParseProgramStep \/ ParseProgramReturn

Spec == Init /\ [][Next]_vars

(***************************************************************************)
(* The lexer alone: lexer.New on a byte string, then NextToken again and   *)
(* again, up to MaxPastEnd reads beyond the end of the input.              *)
(***************************************************************************)
MaxLexLen == 4
MaxPastEnd == 3

LexBytes == { "a", "1", " ", "=", "!", ";", "@", NUL }

LexSources ==
    { [text |-> t, family |-> "bytes", words |-> <<>>, units |-> <<>>,
       ops |-> <<>>] : t \in SeqsUpTo(LexBytes, MaxLexLen) }

LexInit ==
    /\ src \in LexSources
    /\ lex = NoLexer
    /\ tok = ZeroToken
    /\ parse = NoParser
    /\ program = <<>>
    /\ pc = "lexer.New"
    /\ repl = NoRepl

LexNew ==
    /\ pc = "lexer.New"
    /\ lex' = LexerNew(src.text)
    /\ pc' = "NextToken"
    /\ UNCHANGED <<src, tok, parse, program, repl>>

LexNextToken ==
    /\ pc = "NextToken"
    /\ lex.readPosition <= Len(lex.input) + MaxPastEnd
    /\ LET r == NextToken(lex)
       IN  /\ lex' = r.lex
           /\ tok' = r.tok
    /\ UNCHANGED <<src, parse, program, pc, repl>>

LexNext == LexNew \/ LexNextToken

LexSpec == LexInit /\ [][LexNext]_vars

(***************************************************************************)
(* repl.StartLexer: every line that is scanned gets a lexer, and the       *)
(* tokens NextToken returns are printed up to the first EOF.  repl.printed *)
(* lists the tokens printed for the line at hand.  The lines are the byte  *)
(* strings of LexSources, the strings made of up to MaxPieces pieces of    *)
(* words, and "let five = 5;".                                             *)
(***************************************************************************)
MaxPieces == 3

LexPieces ==
    { << "l", "e" >>, << "t" >>, << "f", "n" >>, << "i", "f" >>, << "_" >>,
      Spell("let"), Spell("five"), Spell("return"), Spell("true"),
      << "5" >>, << "1", "2" >>, << " " >>, << "\n" >>, << "=" >>, << "!" >>,
      << ";" >> }

RECURSIVE Flatten(_)
Flatten(seqs) ==
    The({ IF ss = <<>> THEN <<>> ELSE Head(ss) \o Flatten(Tail(ss))
          : ss \in { seqs } })

LetFiveText ==
    Spell("let") \o << " " >> \o Spell("five") \o << " ", "=", " ", "5", ";" >>

LexerLines ==
    LexSources
    \cup { [text |-> Flatten(ps), family |-> "pieces", words |-> <<>>,
            units |-> <<>>, ops |-> <<>>] : ps \in SeqsUpTo(LexPieces, MaxPieces) }
    \cup { [text |-> LetFiveText, family |-> "pieces", words |-> <<>>,
            units |-> <<>>, ops |-> <<>>] }

NoLine == [text |-> <<>>, family |-> "none", words |-> <<>>, units |-> <<>>,
           ops |-> <<>>]

StartLexerInit ==
    /\ src = NoLine
    /\ lex = NoLexer
    /\ tok = ZeroToken
    /\ parse = NoParser
    /\ program = <<>>
    /\ pc = "Scan"
    /\ repl = [printed |-> <<>>]

\* scanner.Scan() has a line: lex := lexer.New(line)
StartLexerScan ==
    /\ pc = "Scan"
    /\ \E line \in LexerLines :
          /\ src' = line
          /\ lex' = LexerNew(line.text)
    /\ tok' = ZeroToken
    /\ repl' = [printed |-> <<>>]
    /\ pc' = "NextToken"
    /\ UNCHANGED <<parse, program>>

\* scanner.Scan() has no line: StartLexer returns.
StartLexerScanEnd ==
    /\ pc = "Scan"
    /\ pc' = "returned"
    /\ UNCHANGED <<src, lex, tok, parse, program, repl>>

\* tok := lex.NextToken() and tok = lex.NextToken() of the for statement.
StartLexerNextToken ==
    /\ pc = "NextToken"
    /\ LET r == NextToken(lex)
       IN  /\ lex' = r.lex
           /\ tok' = r.tok
    /\ pc' = "Printf"
    /\ UNCHANGED <<src, parse, program, repl>>

\* tok.Type != token.EOF: the token is printed.
StartLexerPrintf ==
    /\ pc = "Printf"
    /\ tok.Type # "EOF"
    /\ repl' = [printed |-> Append(repl.printed, tok)]
    /\ pc' = "NextToken"
    /\ UNCHANGED <<src, lex, tok, parse, program>>

\* tok.Type == token.EOF: the line is done; line, lex and tok go out of scope.
StartLexerLineEnd ==
    /\ pc = "Printf"
    /\ tok.Type = "EOF"
    /\ src' = NoLine
    /\ lex' = NoLexer
    /\ tok' = ZeroToken
    /\ repl' = [printed |-> <<>>]
    /\ pc' = "Scan"
    /\ UNCHANGED <<parse, program>>

StartLexerNext ==
    \/ StartLexerScan
    \/ StartLexerScanEnd
    \/ StartLexerNextToken
    \/ StartLexerPrintf
    \/ StartLexerLineEnd

StartLexerSpec == StartLexerInit /\ [][StartLexerNext]_vars

(***************************************************************************)
(* repl.Start: the session.  repl.made lists the objects made so far, each *)
(* with the number of the line during which it was made (0 before the      *)
(* first line); repl.parsed lists the calls of ParseProgram, repl.evals    *)
(* the calls of Eval, repl.out what was written to out.  The evaluator     *)
(* and the object package are outside the source: a call of Eval is        *)
(* recorded, and what it returns is any of nil and an object.              *)
(***************************************************************************)
MaxLines == 3

ReplLines ==
    { Source("line", w, <<>>, <<>>) :
        w \in { <<>>, << "5" >>, << "x", "+", "1", ";" >>,
                << "let", "x", "=", "5", ";" >>, << "let", "x", "=", "5" >>,
                << "let", "=", "5", ";" >>, << "-", "(", "5" >>,
                << "return", ";" >>, << "08" >> } }

\* A new object of the given kind: [r |-> the session after it, id |-> the object].
make(r, kind) ==
    [r  |-> [r EXCEPT !.next = @ + 1,
                      !.made = Append(@, [kind |-> kind, id |-> r.next,
                                           line |-> r.line])],
     id |-> r.next]

NewEnvironment(r) == make(r, "Environment")

\* What printParserErrors writes to out.
printParserErrors(errors) ==
    [i \in 1..Len(errors) |-> "\t" \o errors[i] \o "\n"]

ReplInit ==
    /\ src = Source("line", <<>>, <<>>, <<>>)
    /\ lex = NoLexer
    /\ tok = ZeroToken
    /\ parse = NoParser
    /\ program = <<>>
    /\ pc = "Start"
    /\ repl = [next |-> 1, made |-> <<>>, line |-> 0, env |-> 0, lex |-> 0,
               parse |-> 0, parsed |-> <<>>, evals |-> <<>>, out |-> <<>>]

\* env := object.NewEnvironment()
ReplStart ==
    /\ pc = "Start"
    /\ LET e == NewEnvironment(repl)
       IN  repl' = [e.r EXCEPT !.env = e.id]
    /\ pc' = "Scan"
    /\ UNCHANGED <<src, lex, tok, parse, program>>

\* scanner.Scan() has a line.
ReplScan ==
    /\ pc = "Scan"
    /\ repl.line < MaxLines
    /\ \E line \in ReplLines : src' = line
    /\ repl' = [repl EXCEPT !.line = @ + 1]
    /\ pc' = "New"
    /\ UNCHANGED <<lex, tok, parse, program>>

\* scanner.Scan() has no line: Start returns.
ReplScanEnd ==
    /\ pc = "Scan"
    /\ pc' = "returned"
    /\ UNCHANGED <<src, lex, tok, parse, program, repl>>

\* lex := lexer.New(line); parse := parser.New(lex)
ReplNew ==
    /\ pc = "New"
    /\ LET l == make(repl, "Lexer")
           p == make(l.r, "Parser")
       IN  repl' = [p.r EXCEPT !.lex = l.id, !.parse = p.id]
    /\ parse' = ParserNew(LexerNew(src.text))
    /\ pc' = "ParseProgram"
    /\ UNCHANGED <<src, lex, tok, program>>

\* program := parse.ParseProgram()
ReplParseProgram ==
    /\ pc = "ParseProgram"
    /\ LET r == ParseProgram(parse)
       IN  /\ parse' = r.p
           /\ program' = r.statements
           /\ pc' = IF r.p.hang THEN "hang" ELSE "Errors"
    /\ repl' = [repl EXCEPT !.parsed = Append(@, [line |-> repl.line,
                                                  lex |-> repl.lex,
                                                  parse |-> repl.parse])]
    /\ UNCHANGED <<src, lex, tok>>

\* The record of a call evaluator.Eval(program, env).
EvalCall == [line |-> repl.line, env |-> repl.env, errors |-> Errors(parse)]

\* A step from the error check that makes a new Environment for the lines
\* after a line with errors.
ReplPrintErrorsNewEnvironment ==
    /\ pc = "Errors"
    /\ Len(Errors(parse)) # 0
    /\ LET e == NewEnvironment(repl)
       IN  repl' = [e.r EXCEPT !.env = e.id,
                               !.out = @ \o printParserErrors(Errors(parse))]
    /\ pc' = "Scan"
    /\ UNCHANGED <<src, lex, tok, parse, program>>

\* len(parse.Errors()) != 0: printParserErrors and continue.
ReplPrintErrors ==
    /\ pc = "Errors"
    /\ Len(Errors(parse)) # 0
    /\ repl' = [repl EXCEPT !.out = @ \o printParserErrors(Errors(parse))]
    /\ pc' = "Scan"
    /\ UNCHANGED <<src, lex, tok, parse, program>>

\* A step to Eval that does not look at parse.Errors().
ReplEvalUnchecked ==
    /\ pc = "Errors"
    /\ \E evaluated \in { "nil", "object" } :
          repl' = [repl EXCEPT !.evals = Append(@, EvalCall),
                               !.out = IF evaluated # "nil"
                                       THEN @ \o << "Inspect()", "\n" >>
                                       ELSE @]
    /\ pc' = "Scan"
    /\ UNCHANGED <<src, lex, tok, parse, program>>

\* len(parse.Errors()) == 0: evaluator.Eval(program, env), and its result
\* written to out when it is not nil.
ReplEval ==
    /\ pc = "Errors"
    /\ Len(Errors(parse)) = 0
    /\ \E evaluated \in { "nil", "object" } :
          repl' = [repl EXCEPT !.evals = Append(@, EvalCall),
                               !.out = IF evaluated # "nil"
                                       THEN @ \o << "Inspect()", "\n" >>
                                       ELSE @]
    /\ pc' = "Scan"
    /\ UNCHANGED <<src, lex, tok, parse, program>>

ReplNext ==
    \/ ReplStart
    \/ ReplScan
    \/ ReplScanEnd
    \/ ReplNew
    \/ ReplParseProgram
    \/ ReplPrintErrors
    \/ ReplEval

ReplSpec == ReplInit /\ [][ReplNext]_vars

(***************************************************************************)
(* What the precedence table says a chain renders as, computed from the    *)
(* words of the source and not by the parser: the chain is split at its    *)
(* last operator of the lowest level, and an operand is its atom (and      *)
(* call) wrapped once by every prefix operator, the innermost last.        *)
(***************************************************************************)
Level(op) ==
    CASE op \in { "==", "!=" } -> 1
      [] op \in { "<", ">" }   -> 2
      [] op \in { "+", "-" }   -> 3
      [] op \in { "*", "/" }   -> 4

RECURSIVE WrapPrefix(_, _)
WrapPrefix(pre, core) ==
    IF pre = <<>> THEN core
    ELSE "(" \o Head(pre) \o WrapPrefix(Tail(pre), core) \o ")"

UnitString(u) ==
    WrapPrefix(u.pre, IF u.arg = "" THEN u.atom ELSE u.atom \o "(" \o u.arg \o ")")

SplitAt(ops) ==
    CHOOSE k \in 1..Len(ops) :
        /\ \A i \in 1..Len(ops) : Level(ops[k]) <= Level(ops[i])
        /\ \A i \in (k + 1)..Len(ops) : Level(ops[k]) < Level(ops[i])

RECURSIVE ChainString(_, _)
ChainString(units, ops) ==
    IF ops = <<>> THEN UnitString(units[1])
    ELSE LET k == SplitAt(ops)
         IN  "(" \o ChainString(SubSeq(units, 1, k), SubSeq(ops, 1, k - 1))
                 \o " " \o ops[k] \o " "
                 \o ChainString(SubSeq(units, k + 1, Len(units)),
                                SubSeq(ops, k + 1, Len(ops)))
                 \o ")"

\* ParseProgram has returned a program of one expression statement, without
\* an error, and the expression renders as text.
OneExpression(text) ==
    /\ parse.errors = <<>>
    /\ Len(program) = 1
    /\ program[1].kind = "ExpressionStatement"
    /\ ~Panics(program[1])
    /\ String(program[1].Expression) = text

(***************************************************************************)
(* C1 (as claimed): ParseProgram returns on every source text.  The state  *)
(* "hang" is ParseProgram inside the loop of parseLetStatement or          *)
(* parseReturnStatement that waits for a semicolon, with the token window  *)
(* at end-of-input for good: that loop never ends.                         *)
(***************************************************************************)
C1_ParseProgramTerminates == pc # "hang"

(***************************************************************************)
(* C2: a chain of operands joined by == != < > + - * / parses to the tree  *)
(* of the precedence table, operators of equal precedence grouped to the   *)
(* left; 1 + 2 * 3 renders as (1 + (2 * 3)), a + b + c as ((a + b) + c).   *)
(***************************************************************************)
C2_PrecedenceTree ==
    (pc = "done" /\ src.family = "chain") =>
        /\ OneExpression(ChainString(src.units, src.ops))
        /\ src.words = << "1", "+", "2", "*", "3" >> =>
              ProgramString(program) = "(1 + (2 * 3))"
        /\ src.words = << "a", "+", "b", "+", "c" >> =>
              ProgramString(program) = "((a + b) + c)"

C2_Witness ==
    /\ pc = "done"
    /\ src.words = << "a", "+", "b", "*", "c", "+", "d" >>
    /\ ProgramString(program) = "((a + (b * c)) + d)"

(***************************************************************************)
(* C3: a prefix operator binds tighter than every binary operator and      *)
(* nests to the right; only a call extends its operand.  -a * b renders    *)
(* as ((-a) * b), !-a as (!(-a)).                                          *)
(***************************************************************************)
C3_PrefixBindsTighter ==
    (pc = "done" /\ src.family = "prefix") =>
        /\ OneExpression(ChainString(src.units, src.ops))
        /\ src.words = << "-", "a", "*", "b" >> =>
              ProgramString(program) = "((-a) * b)"
        /\ src.words = << "!", "-", "a" >> =>
              ProgramString(program) = "(!(-a))"

C3_Witness ==
    /\ pc = "done"
    /\ src.words = << "-", "a", "(", "x", ")", "*", "!", "-", "b" >>
    /\ ProgramString(program) = "((-a(x)) * (!(-b)))"

(***************************************************************************)
(* C4 (as claimed): when only expectPeek has failed, no expression node    *)
(* with a missing part has been returned: every failure made the           *)
(* enclosing parse functions return nil.  A prefix, infix, if, function    *)
(* or call node has a missing part when an expression, block or list of    *)
(* it is nil.                                                              *)
(***************************************************************************)
PeekErrors ==
    { peekErrorMsg(t, got) :
        t \in { "IDENTIFIER", "=", "(", ")", "{" },
        got \in { "ILLEGAL", "EOF", "IDENTIFIER", "INT", "=", "+", "-", "!",
                  "*", "/", "<", ">", ",", ";", "(", ")", "{", "}", "FUNCTION",
                  "LET", "TRUE", "FALSE", "IF", "ELSE", "RETURN", "==", "!=" } }

RECURSIVE Partial(_)
Partial(n) ==
    CASE n.kind = "PrefixExpression" -> n.Right = NIL \/ Partial(n.Right)
      [] n.kind = "InfixExpression" ->
            n.Left = NIL \/ n.Right = NIL \/ Partial(n.Left) \/ Partial(n.Right)
      [] n.kind = "IfExpression" ->
            \/ n.Condition = NIL
            \/ Partial(n.Condition)
            \/ Partial(n.Consequence)
            \/ (n.Alternative # NIL /\ Partial(n.Alternative))
      [] n.kind = "BlockStatement" ->
            \E i \in 1..Len(n.Statements) : Partial(n.Statements[i])
      [] n.kind = "FunctionLiteral" -> n.Parameters.nil \/ Partial(n.Body)
      [] n.kind = "CallExpression" ->
            \/ n.Function = NIL
            \/ Partial(n.Function)
            \/ n.Arguments.nil
            \/ \E i \in 1..Len(n.Arguments.elems) :
                  n.Arguments.elems[i] = NIL \/ Partial(n.Arguments.elems[i])
      [] n.kind = "LetStatement" -> n.Value # NIL /\ Partial(n.Value)
      [] n.kind = "ReturnStatement" ->
            n.ReturnValue # NIL /\ Partial(n.ReturnValue)
      [] n.kind = "ExpressionStatement" ->
            n.Expression # NIL /\ Partial(n.Expression)
      [] OTHER -> FALSE

C4_ExpectPeekFailureReturnsNil ==
    (/\ pc = "done"
     /\ parse.errors # <<>>
     /\ \A i \in 1..Len(parse.errors) : parse.errors[i] \in PeekErrors) =>
        \A i \in 1..Len(program) : ~Partial(program[i])

(***************************************************************************)
(* C5: in the session, Eval is never called on a program whose parser has  *)
(* errors: a line with an error has its errors written to out, one         *)
(* "\t<message>\n" each, and the session goes on to scan the next line.    *)
(***************************************************************************)
C5_NoEvalWithErrors ==
    /\ [](\A i \in 1..Len(repl.evals) : repl.evals[i].errors = <<>>)
    /\ [][(pc = "Errors" /\ Errors(parse) # <<>>) =>
              /\ pc' = "Scan"
              /\ repl'.evals = repl.evals
              /\ repl'.out = repl.out \o printParserErrors(Errors(parse))]_vars

C5_Witness ==
    /\ pc = "Scan"
    /\ repl.line = 2
    /\ src.words = << "5" >>
    /\ repl.out = << "\t" \o peekErrorMsg(")", "EOF") \o "\n" >>
    /\ Len(repl.evals) = 1
    /\ repl.evals[1].line = 2

(***************************************************************************)
(* C6: once the lexer stands at or beyond the end of its input, every      *)
(* call of NextToken returns the EOF token with the empty literal, and     *)
(* leaves the lexer beyond the end.                                        *)
(***************************************************************************)
C6_EOFForever ==
    [][(pc = "NextToken" /\ lex.position >= Len(lex.input)) =>
          /\ tok' = Token("EOF", <<>>)
          /\ lex'.position >= Len(lex'.input)]_vars

C6_Witness ==
    /\ pc = "NextToken"
    /\ lex.input = << "a", " ", "1" >>
    /\ lex.position >= Len(lex.input) + MaxPastEnd
    /\ tok = Token("EOF", <<>>)

(***************************************************************************)
(* C9: in the session, the lexer and the parser of every call of           *)
(* ParseProgram were made during the line that is parsed, and no two       *)
(* lines share one; one Environment is ever made, before the first line,   *)
(* and every call of Eval receives it.                                     *)
(***************************************************************************)
Made(kind) == { i \in 1..Len(repl.made) : repl.made[i].kind = kind }

C9_FreshParserOneEnvironment ==
    pc # "Start" =>
        /\ Cardinality(Made("Environment")) = 1
        /\ \A e \in Made("Environment") :
              /\ repl.made[e].line = 0
              /\ repl.env = repl.made[e].id
              /\ \A i \in 1..Len(repl.evals) :
                    repl.evals[i].env = repl.made[e].id
        /\ \A j \in 1..Len(repl.parsed) :
              /\ repl.parsed[j].line = j
              /\ \E m \in Made("Lexer") :
                    repl.made[m] = [kind |-> "Lexer", id |-> repl.parsed[j].lex,
                                    line |-> j]
              /\ \E m \in Made("Parser") :
                    repl.made[m] = [kind |-> "Parser",
                                    id |-> repl.parsed[j].parse, line |-> j]
              /\ \A k \in 1..Len(repl.parsed) :
                    k # j => /\ repl.parsed[k].lex # repl.parsed[j].lex
                             /\ repl.parsed[k].parse # repl.parsed[j].parse

C9_Witness ==
    /\ pc = "Scan"
    /\ Len(repl.parsed) = 3
    /\ Len(repl.evals) = 2
    /\ repl.evals[1].line = 1
    /\ repl.evals[2].line = 3
    /\ repl.out # <<>>
    /\ repl.evals[2].env = repl.evals[1].env

(***************************************************************************)
(* C7: a well-formed let <ident> = <expr>; renders, as a statement and as  *)
(* the program made of it, as let <ident> = <rendered expr>; where         *)
(* <ident> is the identifier of the source and <rendered expr> is the      *)
(* rendering of the value.                                                 *)
(***************************************************************************)
C7_LetRendering ==
    (pc = "done" /\ src.family = "let") =>
        /\ parse.errors = <<>>
        /\ Len(program) = 1
        /\ program[1].kind = "LetStatement"
        /\ program[1].Value # NIL
        /\ ~Panics(program[1])
        /\ String(program[1]) =
              "let " \o Str(Spell(src.words[2])) \o " = "
                     \o String(program[1].Value) \o ";"
        /\ ProgramString(program) = String(program[1])
        /\ String(program[1].Value) = ChainString(src.units, src.ops)

C7_Witness ==
    /\ pc = "done"
    /\ src.words = << "let", "five", "=", "-", "a", "*", "b", ";" >>
    /\ ProgramString(program) = "let five = ((-a) * b);"

(***************************************************************************)
(* C8 (as claimed): return; yields a ReturnStatement without a value and   *)
(* records no error.                                                       *)
(***************************************************************************)
C8_ReturnValueOptional ==
    (pc = "done" /\ src.words = << "return", ";" >>) =>
        /\ parse.errors = <<>>
        /\ Len(program) = 1
        /\ program[1].kind = "ReturnStatement"
        /\ program[1].ReturnValue = NIL

(***************************************************************************)
(* C10 (as claimed): no FunctionLiteral is produced whose Parameters hold  *)
(* a token that is not an identifier.                                      *)
(***************************************************************************)
RECURSIVE BadParameter(_)
BadParameter(n) ==
    CASE n.kind = "PrefixExpression" -> BadParameter(n.Right)
      [] n.kind = "InfixExpression" -> BadParameter(n.Left) \/ BadParameter(n.Right)
      [] n.kind = "IfExpression" ->
            \/ BadParameter(n.Condition)
            \/ BadParameter(n.Consequence)
            \/ BadParameter(n.Alternative)
      [] n.kind = "BlockStatement" ->
            \E i \in 1..Len(n.Statements) : BadParameter(n.Statements[i])
      [] n.kind = "FunctionLiteral" ->
            \/ \E i \in 1..Len(n.Parameters.elems) :
                  n.Parameters.elems[i].Token.Type # "IDENTIFIER"
            \/ BadParameter(n.Body)
      [] n.kind = "CallExpression" ->
            \/ BadParameter(n.Function)
            \/ \E i \in 1..Len(n.Arguments.elems) :
                  BadParameter(n.Arguments.elems[i])
      [] n.kind = "LetStatement" -> BadParameter(n.Value)
      [] n.kind = "ReturnStatement" -> BadParameter(n.ReturnValue)
      [] n.kind = "ExpressionStatement" -> BadParameter(n.Expression)
      [] OTHER -> FALSE

C10_ParametersAreIdentifiers ==
    pc = "done" => \A i \in 1..Len(program) : ~BadParameter(program[i])

(***************************************************************************)
(* The tokens of a line as its bytes tell them, not as the lexer reads     *)
(* them: the first byte at or after index i that is not whitespace, the    *)
(* end of the run of bytes of a class that starts at i, and the kind of a  *)
(* run of letters.                                                         *)
(***************************************************************************)
Blanks == { " ", "\t", "\n", "\r" }

FirstNonBlank(input, i) ==
    CHOOSE k \in i..(Len(input) + 1) :
        /\ \A m \in i..(k - 1) : input[m] \in Blanks
        /\ k <= Len(input) => input[k] \notin Blanks

RunEnd(input, i, class) ==
    CHOOSE j \in i..Len(input) :
        /\ \A m \in i..j : input[m] \in class
        /\ j < Len(input) => input[j + 1] \notin class

KindOfRun(run) ==
    CASE run = << "f", "n" >> -> "FUNCTION"
      [] run = << "l", "e", "t" >> -> "LET"
      [] run = << "t", "r", "u", "e" >> -> "TRUE"
      [] run = << "f", "a", "l", "s", "e" >> -> "FALSE"
      [] run = << "i", "f" >> -> "IF"
      [] run = << "e", "l", "s", "e" >> -> "ELSE"
      [] run = << "r", "e", "t", "u", "r", "n" >> -> "RETURN"
      [] OTHER -> "IDENTIFIER"

\* The step returns the run of bytes of the class that starts at index i of
\* the input as one token, of the kind given, and the run is a whole one.
WholeRun(input, i, class, kind) ==
    /\ tok'.Literal = SubSeq(input, i, RunEnd(input, i, class))
    /\ tok'.Type = kind
    /\ lex'.position = RunEnd(input, i, class)
    /\ i > 1 => input[i - 1] \notin class

(***************************************************************************)
(* C11: NextToken returns each maximal run of letters and underscores as   *)
(* one token, of the keyword's kind when the run is a keyword and          *)
(* IDENTIFIER otherwise, and each maximal run of digits as one INT token;  *)
(* the tokens of "let five = 5;" are LET, IDENTIFIER five, =, INT 5, ;     *)
(* and then EOF.                                                           *)
(***************************************************************************)
C11_RunsAreTokens ==
    /\ []((pc = "Printf" /\ tok.Type = "EOF" /\ src.text = LetFiveText) =>
             repl.printed = << Token("LET", << "l", "e", "t" >>),
                               Token("IDENTIFIER", << "f", "i", "v", "e" >>),
                               Token("=", << "=" >>),
                               Token("INT", << "5" >>),
                               Token(";", << ";" >>) >>)
    /\ [][pc = "NextToken" =>
             LET input == lex.input
                 i == FirstNonBlank(input, lex.position + 1)
             IN  i <= Len(input) =>
                     /\ input[i] \in Letters =>
                           WholeRun(input, i, Letters,
                                    KindOfRun(SubSeq(input, i,
                                                     RunEnd(input, i, Letters))))
                     /\ input[i] \in Digits =>
                           WholeRun(input, i, Digits, "INT")]_vars

C11_Witness ==
    /\ pc = "Printf"
    /\ tok = Token("EOF", <<>>)
    /\ src.text = LetFiveText
    /\ Len(repl.printed) = 5
    /\ repl.printed[1].Type = "LET"
    /\ repl.printed[2] = Token("IDENTIFIER", << "f", "i", "v", "e" >>)

(***************************************************************************)
(* C12 (as claimed): when the source starts an if expression or a          *)
(* function literal and ends with a block still open (it has more { than   *)
(* }), the parser has recorded an error when ParseProgram returns.         *)
(***************************************************************************)
Count(words, w) == Cardinality({ i \in 1..Len(words) : words[i] = w })

UnclosedBlock(words) ==
    /\ words # <<>>
    /\ words[1] \in { "if", "fn" }
    /\ Count(words, "{") > Count(words, "}")

C12_UnclosedBlockIsAnError ==
    (pc = "done" /\ UnclosedBlock(src.words)) => parse.errors # <<>>

(***************************************************************************)
(* C13 (as claimed): when ParseProgram has returned, no element of the     *)
(* statements of the program or of a block in it is a nil statement: a     *)
(* let statement that fails its identifier or = check adds no element.     *)
(***************************************************************************)
RECURSIVE NilStatementIn(_)
NilStatementIn(n) ==
    CASE n.kind = "nil *ast.LetStatement" -> TRUE
      [] n.kind = "PrefixExpression" -> NilStatementIn(n.Right)
      [] n.kind = "InfixExpression" ->
            NilStatementIn(n.Left) \/ NilStatementIn(n.Right)
      [] n.kind = "IfExpression" ->
            \/ NilStatementIn(n.Condition)
            \/ NilStatementIn(n.Consequence)
            \/ NilStatementIn(n.Alternative)
      [] n.kind = "BlockStatement" ->
            \E i \in 1..Len(n.Statements) : NilStatementIn(n.Statements[i])
      [] n.kind = "FunctionLiteral" -> NilStatementIn(n.Body)
      [] n.kind = "CallExpression" ->
            \/ NilStatementIn(n.Function)
            \/ \E i \in 1..Len(n.Arguments.elems) :
                  NilStatementIn(n.Arguments.elems[i])
      [] n.kind = "LetStatement" -> NilStatementIn(n.Value)
      [] n.kind = "ReturnStatement" -> NilStatementIn(n.ReturnValue)
      [] n.kind = "ExpressionStatement" -> NilStatementIn(n.Expression)
      [] OTHER -> FALSE

C13_StatementsAreNotNil ==
    pc = "done" => \A i \in 1..Len(program) : ~NilStatementIn(program[i])

(***************************************************************************)
(* C14: for a line without NUL bytes, the literals of the tokens that      *)
(* NextToken returns before the first EOF, put end to end, are the line    *)
(* without its whitespace: no byte is skipped and none is read twice.  ==  *)
(* and != are one token of two bytes, and the byte after a lone = or !     *)
(* starts the next token.                                                  *)
(***************************************************************************)
NotBlank(b) == b \notin Blanks

Literals(tokens) == Flatten([i \in 1..Len(tokens) |-> tokens[i].Literal])

C14_BytesConserved ==
    (/\ pc = "Printf"
     /\ tok.Type = "EOF"
     /\ \A i \in 1..Len(src.text) : src.text[i] # NUL) =>
        /\ Literals(repl.printed) = SelectSeq(src.text, NotBlank)
        /\ src.text = << "=", "=", "!", "=" >> =>
              repl.printed = << Token("==", << "=", "=" >>),
                                Token("!=", << "!", "=" >>) >>
        /\ src.text = << "=", "a", "!", "1" >> =>
              repl.printed = << Token("=", << "=" >>),
                                Token("IDENTIFIER", << "a" >>),
                                Token("!", << "!" >>),
                                Token("INT", << "1" >>) >>

C14_Witness ==
    /\ pc = "Printf"
    /\ tok.Type = "EOF"
    /\ src.text = << "!", "=", "=", " " >>
    /\ repl.printed = << Token("!=", << "!", "=" >>), Token("=", << "=" >>) >>

====
